---- MODULE Spec2Model ----
(***************************************************************************)
(* The stale-attachments doctor check (internal/doctor/stale_check.go).    *)
(*                                                                         *)
(* One Run of StaleAttachmentsCheck is modelled as a sequential state      *)
(* machine: Run resolves the rigs, calls checkRig for each, checkRig globs *)
(* the polecat and crew stores and calls checkBeadsDirWithContext on each, *)
(* which lists the pinned beads and classifies them one at a time; the     *)
(* town-level store follows and the result is rendered.  The filesystem    *)
(* and the beads stores are the environment: what discoverRigs, Glob, List *)
(* and Show return is chosen when the call is made and summarised in       *)
(* `seen`.   Time is an integer number of ticks; a time.Duration is a      *)
(* signed integer of bounded width (MinDuration..MaxDuration).             *)
(***************************************************************************)
EXTENDS Integers, Sequences, FiniteSets, TLC

\* ---------------------------------------------------------------- bounds
MaxRigs == 2
MaxDirs == 2
MaxPinned == 2
MaxTicks == 1
MaxDuration == 7

\* DefaultStaleThreshold = 1 * time.Hour, in ticks of half an hour.
DefaultStaleThreshold == 2

\* ------------------------------------------------- time.Duration, time.Time
MinDuration == -MaxDuration - 1

Durations == MinDuration..MaxDuration

\* The thresholds a check is constructed with: the default, and the least,
\* the greatest and the ones around zero and around half the range that
\* NewStaleAttachmentsCheckWithThreshold accepts.
Thresholds ==
    {MinDuration, -1, 0, 1, DefaultStaleThreshold, MaxDuration \div 2,
     MaxDuration \div 2 + 1, MaxDuration}

\* int64 arithmetic on a Duration wraps around.
WrapDuration(n) == ((n - MinDuration) % (2 * MaxDuration + 2)) + MinDuration

\* Time.Sub saturates at the largest and the smallest Duration.
SubSaturate(t, u) ==
    IF t - u > MaxDuration THEN MaxDuration
    ELSE IF t - u < MinDuration THEN MinDuration
    ELSE t - u

\* Time.Add(d): instants have a far wider range than durations.
TimeAdd(t, d) == t + d

\* time.Since(t) read when the clock shows `now`.
Since(now, t) == SubSaturate(now, t)

\* The zero time.Time of a finding whose molecule was not found.
ZeroTime == [zero |-> TRUE, at |-> 0]

\* A time.Time kept in a finding.
TimeValue(t) == [zero |-> FALSE, at |-> t]

\* ----------------------------------------------------------- parseTimestamp
\* A timestamp string is modelled by the layout it is written in and the
\* instant it denotes; "garbage" is a string no layout matches.
Layouts == {"RFC3339", "2006-01-02T15:04:05", "2006-01-02"}

parseTimestamp(ts) ==
    IF ts.layout = "RFC3339" THEN [err |-> FALSE, t |-> ts.at]
    ELSE IF ts.layout = "2006-01-02T15:04:05" THEN [err |-> FALSE, t |-> ts.at]
    ELSE IF ts.layout = "2006-01-02" THEN [err |-> FALSE, t |-> ts.at]
    ELSE [err |-> TRUE, t |-> 0]

\* ------------------------------------------------------------------- state
VARIABLES
    RigName,            \* ctx.RigName ("" when no rig was named)
    Threshold,          \* c.Threshold
    clock,              \* the wall clock
    ticks,              \* how often the clock has advanced
    pc,                 \* where Run is
    cutoff,             \* Run's cutoff
    rigsToCheck,        \* Run's rigsToCheck
    rigIdx,             \* index of Run's loop over rigsToCheck
    shape,              \* which stores are being scanned: polecats, crew, town
    dirs,               \* checkRig's polecatDirs / crewDirs (worker names)
    dirIdx,             \* index of checkRig's loop over them
    allStale,           \* checkRig's allStale
    totalChecked,       \* checkRig's totalChecked
    pinnedIssues,       \* checkBeadsDirWithContext's pinnedIssues
    pinIdx,             \* index of its loop over them
    stale,              \* checkBeadsDirWithContext's staleAttachments
    checked,            \* checkBeadsDirWithContext's checked
    staleAttachments,   \* Run's staleAttachments
    checkedCount,       \* Run's checkedCount
    result,             \* the CheckResult Run returned
    seen,               \* history: what the environment was asked and gave
    budget              \* how many more stores and pinned beads may appear

vars == <<RigName, Threshold, clock, ticks, pc, cutoff, rigsToCheck, rigIdx,
          shape, dirs, dirIdx, allStale, totalChecked, pinnedIssues, pinIdx,
          stale, checked, staleAttachments, checkedCount, result, seen,
          budget>>

ctxVars == <<RigName, Threshold>>
clockVars == <<clock, ticks>>
runVars == <<cutoff, rigsToCheck, rigIdx, staleAttachments, checkedCount, result>>
rigVars == <<shape, dirs, dirIdx, allStale, totalChecked>>
storeVars == <<pinnedIssues, pinIdx, stale, checked>>


\* ------------------------------------------------------------- environment
\* What discoverRigs may return: an error, or the rigs in directory order.
DiscoverResults ==
    {[err |-> TRUE, text |-> "read town root: permission denied", rigs |-> <<>>]}
    \cup {[err |-> FALSE, text |-> "", rigs |-> [k \in 1..n |-> "rig" \o ToString(k)]] :
            n \in 0..MaxRigs}

\* What filepath.Glob may return: ErrBadPattern, or the matching worker
\* directories in lexical order, at most `room` of them.
GlobResults(room) ==
    {[err |-> TRUE, names |-> <<>>]}
    \cup {[err |-> FALSE, names |-> [k \in 1..n |-> "w" \o ToString(k)]] : n \in 0..room}

\* The ways a pinned bead and the molecule it names may look.  `off` places
\* the molecule's updated_at relative to the cutoff of the Run; the date-only
\* one lies further back than a Duration can express (as "0001-01-01" does).
RichKinds ==
    {[att |-> "nil",   show |-> "err", Status |-> "", layout |-> "garbage", off |-> 0],
     [att |-> "empty", show |-> "err", Status |-> "", layout |-> "garbage", off |-> 0],
     [att |-> "ref",   show |-> "err", Status |-> "", layout |-> "garbage", off |-> 0],
     [att |-> "ref",   show |-> "ok",  Status |-> "in_progress", layout |-> "garbage", off |-> -1]}
    \cup {[att |-> "ref", show |-> "ok", Status |-> "in_progress",
            layout |-> "2006-01-02T15:04:05", off |-> -1],
           [att |-> "ref", show |-> "ok", Status |-> "in_progress",
            layout |-> "2006-01-02", off |-> -MaxDuration - 2]}
    \cup {[att |-> "ref", show |-> "ok", Status |-> s, layout |-> "RFC3339", off |-> o] :
            s \in {"in_progress", "closed"}, o \in {-1, 0, 1}}

LeanKinds ==
    {[att |-> "nil", show |-> "err", Status |-> "", layout |-> "garbage", off |-> 0],
     [att |-> "ref", show |-> "err", Status |-> "", layout |-> "garbage", off |-> 0],
     [att |-> "ref", show |-> "ok", Status |-> "in_progress", layout |-> "RFC3339", off |-> 1]}

\* A store is <rig>/polecats/<name>/.beads, <rig>/crew/<name>/.beads or the
\* town-level .beads (rig "", shape "town").
Store(rig, kind, name) == [rig |-> rig, shape |-> kind, name |-> name]

TownStore == Store("", "town", "")

StoreText(store) == store.rig \o "/" \o store.shape \o "/" \o store.name

\* The pinned bead at place n of a store, of the given kind: what List
\* returns for it, what ParseAttachmentFields finds in it, and what Show
\* returns for the molecule it names.
Pinned(store, n, kind, cut) ==
    [ID |-> [store |-> store, n |-> n],
     Title |-> "pinned " \o StoreText(store) \o "#" \o ToString(n),
     Assignee |-> IF n = 1 THEN "" ELSE "worker",
     attachment |-> IF kind.att = "nil" THEN [nil |-> TRUE, AttachedMolecule |-> ""]
                    ELSE IF kind.att = "empty" THEN [nil |-> FALSE, AttachedMolecule |-> ""]
                    ELSE [nil |-> FALSE, AttachedMolecule |-> "mol-" \o ToString(n)],
     show |-> [err |-> kind.show = "err",
               mol |-> [ID |-> "mol-" \o ToString(n),
                        Title |-> "molecule " \o StoreText(store) \o "#" \o ToString(n),
                        Status |-> kind.Status,
                        UpdatedAt |-> [layout |-> kind.layout, at |-> cut + kind.off]]]]

\* What bd.List may return for a store: an error, or its pinned beads in
\* list order, at most `room` of them.
ListResults(store, kinds, room, cut) ==
    {[err |-> TRUE, issues |-> <<>>]}
    \cup {[err |-> FALSE, issues |-> [n \in DOMAIN ks |-> Pinned(store, n, ks[n], cut)]] :
            ks \in UNION {[1..n -> kinds] : n \in 0..room}}

\* --------------------------------------------------------------- the check
NoResult == [Status |-> "none", Message |-> [format |-> "", args |-> <<>>],
             Details |-> <<>>, FixHint |-> ""]

\* The rig named in the context is ignored.
ResolveRigsDiscovering(rigName, discovered) == discovered

\* Run, lines 54-68: the rigs to check, or the discovery error.
ResolveRigs(rigName, discovered) ==
    IF rigName # "" THEN [err |-> FALSE, text |-> "", rigs |-> <<rigName>>]
    ELSE discovered

\* A town without rigs is scanned like any other.
NoRigsNeverReturns(rigs) == FALSE

\* Run, line 70.
NoRigs(rigs) == Len(rigs) = 0

\* Run, line 81.
Cutoff(now, threshold) == TimeAdd(now, WrapDuration(-threshold))

\* An attachment that names no molecule is taken for one.
NoAttachmentNilOnly(attachment) == attachment.nil

\* checkBeadsDirWithContext, line 213: the pinned bead has no attachment.
NoAttachment(attachment) == attachment.nil \/ attachment.AttachedMolecule = ""

\* The threshold is left out of the synthesized duration.
NotFoundDurationSinceCutoff(now, cut, threshold) == Since(now, cut)

\* checkBeadsDirWithContext, line 232.
NotFoundDuration(now, cut, threshold) == WrapDuration(Since(now, cut) + threshold)

\* checkBeadsDirWithContext, lines 224-233.
NotFoundAttachment(rigName, pinned, now, cut, threshold) ==
    [Rig |-> rigName,
     PinnedBeadID |-> pinned.ID,
     PinnedTitle |-> pinned.Title,
     Assignee |-> pinned.Assignee,
     MoleculeID |-> pinned.attachment.AttachedMolecule,
     MoleculeTitle |-> "(molecule not found)",
     LastUpdated |-> ZeroTime,
     StaleDuration |-> NotFoundDuration(now, cut, threshold)]

\* A molecule updated exactly at the cutoff is taken for stale.
IsStaleAtCutoff(mol, updatedAt, cut) == mol.Status = "in_progress" /\ updatedAt <= cut

\* checkBeadsDirWithContext, line 245.
IsStale(mol, updatedAt, cut) == mol.Status = "in_progress" /\ updatedAt < cut

\* checkBeadsDirWithContext, lines 246-255.
StaleMolecule(rigName, pinned, mol, updatedAt, now) ==
    [Rig |-> rigName,
     PinnedBeadID |-> pinned.ID,
     PinnedTitle |-> pinned.Title,
     Assignee |-> pinned.Assignee,
     MoleculeID |-> mol.ID,
     MoleculeTitle |-> mol.Title,
     LastUpdated |-> TimeValue(updatedAt),
     StaleDuration |-> Since(now, updatedAt)]

\* A molecule that cannot be fetched is reported but not counted.
CheckPinnedBeadUncounted(found, count, rigName, pinned, now, cut, threshold) ==
    IF NoAttachment(pinned.attachment) THEN [stale |-> found, checked |-> count]
    ELSE IF pinned.show.err
    THEN [stale |-> Append(found, NotFoundAttachment(rigName, pinned, now, cut, threshold)),
          checked |-> count]
    ELSE LET parsed == parseTimestamp(pinned.show.mol.UpdatedAt)
         IN  IF parsed.err THEN [stale |-> found, checked |-> count + 1]
             ELSE IF IsStale(pinned.show.mol, parsed.t, cut)
             THEN [stale |-> Append(found, StaleMolecule(rigName, pinned, pinned.show.mol,
                                                         parsed.t, now)),
                   checked |-> count + 1]
             ELSE [stale |-> found, checked |-> count + 1]

\* One pass of the loop of checkBeadsDirWithContext, lines 210-257, over
\* the pinned bead `pinned`: the findings and the count after it.
CheckPinnedBead(found, count, rigName, pinned, now, cut, threshold) ==
    IF NoAttachment(pinned.attachment) THEN [stale |-> found, checked |-> count]
    ELSE IF pinned.show.err
    THEN [stale |-> Append(found, NotFoundAttachment(rigName, pinned, now, cut, threshold)),
          checked |-> count + 1]
    ELSE LET parsed == parseTimestamp(pinned.show.mol.UpdatedAt)
         IN  IF parsed.err THEN [stale |-> found, checked |-> count + 1]
             ELSE IF IsStale(pinned.show.mol, parsed.t, cut)
             THEN [stale |-> Append(found, StaleMolecule(rigName, pinned, pinned.show.mol,
                                                         parsed.t, now)),
                   checked |-> count + 1]
             ELSE [stale |-> found, checked |-> count + 1]

\* Run, lines 103-112: the detail line of one finding.
Location(sa) == IF sa.Rig = "" THEN "town" ELSE sa.Rig

DetailLine(sa) ==
    [location |-> Location(sa),
     pinnedTitle |-> sa.PinnedTitle,
     moleculeTitle |-> sa.MoleculeTitle,
     assigneeInfo |-> IF sa.Assignee # "" THEN <<" (assignee: %s)", sa.Assignee>> ELSE <<>>,
     staleFor |-> sa.StaleDuration]

\* Run, lines 115-121.
WarningResult(found, threshold) ==
    [Status |-> "Warning",
     Message |-> [format |-> "%d stale attachment(s) found (no activity for >%s)",
                  args |-> <<Len(found), threshold>>],
     Details |-> [k \in 1..Len(found) |-> DetailLine(found[k])],
     FixHint |-> "Check if polecats are stuck or crashed. Use 'gt witness nudge <polecat>' or 'gt polecat kill <name>' if needed"]

\* Run, lines 125-129.
NothingToCheckResult ==
    [Status |-> "OK",
     Message |-> [format |-> "No attachments to check", args |-> <<>>],
     Details |-> <<>>, FixHint |-> ""]

\* Run, lines 132-136.
NoneStaleResult(count) ==
    [Status |-> "OK",
     Message |-> [format |-> "Checked %d attachment(s), none stale", args |-> <<count>>],
     Details |-> <<>>, FixHint |-> ""]

\* The count is mistaken for the number of findings.
RenderResultByFindings(found, count, threshold) ==
    IF Len(found) > 0 THEN WarningResult(found, threshold)
    ELSE IF Len(found) = 0 THEN NothingToCheckResult
    ELSE NoneStaleResult(count)

\* Run, lines 100-136: the result for the findings and the count.
RenderResult(found, count, threshold) ==
    IF Len(found) > 0 THEN WarningResult(found, threshold)
    ELSE IF count = 0 THEN NothingToCheckResult
    ELSE NoneStaleResult(count)

\* ------------------------------------------------------------------ history
\* `seen` counts the calls made to the environment and keeps, for the
\* stores whose listing succeeded, the pinned beads that call for a finding
\* (in the order listed) and the number that name a molecule.
NothingSeen ==
    [discovers |-> 0, discoverErrs |-> 0, polecatErrs |-> 0, crewGlobs |-> 0, crewErrs |-> 0,
     lists |-> 0, listErrs |-> 0, townLists |-> 0, shows |-> 0,
     reportable |-> <<>>, attached |-> 0]

\* A listed pinned bead that names a molecule.
Attached(pinned) == ~pinned.attachment.nil /\ pinned.attachment.AttachedMolecule # ""

\* A listed pinned bead that calls for a finding: its molecule cannot be
\* fetched, or is in progress and was last updated before the cutoff.
Reportable(pinned, cut) ==
    /\ Attached(pinned)
    /\ \/ pinned.show.err
       \/ /\ pinned.show.mol.UpdatedAt.layout \in Layouts
          /\ pinned.show.mol.Status = "in_progress"
          /\ pinned.show.mol.UpdatedAt.at < cut

RECURSIVE ReportableIDs(_, _)
ReportableIDs(issues, cut) ==
    IF issues = <<>> THEN <<>>
    ELSE (IF Reportable(Head(issues), cut) THEN <<Head(issues).ID>> ELSE <<>>)
         \o ReportableIDs(Tail(issues), cut)

RECURSIVE AttachedCount(_)
AttachedCount(issues) ==
    IF issues = <<>> THEN 0
    ELSE (IF Attached(Head(issues)) THEN 1 ELSE 0) + AttachedCount(Tail(issues))

\* ------------------------------------------------------------------ actions
InitWith(rigNames, thresholds, dirsRoom, pinnedRoom) ==
    /\ RigName \in rigNames
    /\ Threshold \in thresholds
    /\ clock = 0
    /\ ticks = 0
    /\ pc = "start"
    /\ cutoff = 0
    /\ rigsToCheck = <<>>
    /\ rigIdx = 0
    /\ shape = "none"
    /\ dirs = <<>>
    /\ dirIdx = 0
    /\ allStale = <<>>
    /\ totalChecked = 0
    /\ pinnedIssues = <<>>
    /\ pinIdx = 0
    /\ stale = <<>>
    /\ checked = 0
    /\ staleAttachments = <<>>
    /\ checkedCount = 0
    /\ result = NoResult
    /\ seen = NothingSeen
    /\ budget = [dirs |-> dirsRoom, pinned |-> pinnedRoom]

\* Run, lines 52-81: resolve the rigs; return on a discovery error or when
\* there is no rig, else take the cutoff and enter the loop over the rigs.
RunStart ==
    /\ pc = "start"
    /\ \E d \in DiscoverResults :
         LET r == ResolveRigs(RigName, d)
         IN  /\ seen' = IF RigName # "" THEN seen
                        ELSE [seen EXCEPT !.discovers = @ + 1,
                                          !.discoverErrs = IF d.err THEN @ + 1 ELSE @]
             /\ IF r.err
                THEN /\ result' = [Status |-> "Error",
                                   Message |-> [format |-> "Failed to discover rigs",
                                                args |-> <<>>],
                                   Details |-> <<r.text>>, FixHint |-> ""]
                     /\ pc' = "done"
                     /\ UNCHANGED <<cutoff, rigsToCheck, rigIdx>>
                ELSE IF NoRigs(r.rigs)
                THEN /\ result' = [Status |-> "OK",
                                   Message |-> [format |-> "No rigs configured",
                                                args |-> <<>>],
                                   Details |-> <<>>, FixHint |-> ""]
                     /\ pc' = "done"
                     /\ UNCHANGED <<cutoff, rigsToCheck, rigIdx>>
                ELSE /\ rigsToCheck' = r.rigs
                     /\ cutoff' = Cutoff(clock, Threshold)
                     /\ rigIdx' = 1
                     /\ pc' = "rigs"
                     /\ UNCHANGED result
    /\ UNCHANGED <<ctxVars, clockVars, rigVars, storeVars, staleAttachments,
                   checkedCount, budget>>

\* The findings of a rig are put before those of the rigs scanned earlier.
ReturnToRunPrepending(err, found, count) ==
    /\ staleAttachments' = IF err THEN staleAttachments ELSE found \o staleAttachments
    /\ checkedCount' = IF err THEN checkedCount ELSE checkedCount + count
    /\ rigIdx' = rigIdx + 1
    /\ pc' = "rigs"
    /\ shape' = "none"
    /\ dirs' = <<>>
    /\ dirIdx' = 0
    /\ allStale' = <<>>
    /\ totalChecked' = 0

\* checkRig returns to Run, lines 84-90: on an error the rig is skipped, else
\* its findings and its count are added; the loop moves to the next rig.
ReturnToRun(err, found, count) ==
    /\ staleAttachments' = IF err THEN staleAttachments ELSE staleAttachments \o found
    /\ checkedCount' = IF err THEN checkedCount ELSE checkedCount + count
    /\ rigIdx' = rigIdx + 1
    /\ pc' = "rigs"
    /\ shape' = "none"
    /\ dirs' = <<>>
    /\ dirIdx' = 0
    /\ allStale' = <<>>
    /\ totalChecked' = 0

\* checkRig, lines 146-149: what a failed glob of the polecat stores returns.
PolecatGlobError == [err |-> TRUE, stale |-> <<>>, checked |-> 0]

\* A failed glob of the crew stores is returned as the polecat one is.
CrewGlobErrorReturned(found, count) == [err |-> TRUE, stale |-> <<>>, checked |-> 0]

\* checkRig, lines 169-170 and 184: what checkRig returns when the glob of
\* the crew stores fails.
CrewGlobError(found, count) == [err |-> FALSE, stale |-> found, checked |-> count]

\* Run calls checkRig, lines 83-84 and 140-152: the polecat stores are
\* globbed; a glob error is returned to Run.
CheckRigStart ==
    /\ pc = "rigs"
    /\ rigIdx <= Len(rigsToCheck)
    /\ \E g \in GlobResults(budget.dirs) :
         /\ seen' = IF g.err THEN [seen EXCEPT !.polecatErrs = @ + 1] ELSE seen
         /\ budget' = [budget EXCEPT !.dirs = @ - Len(g.names)]
         /\ IF g.err
            THEN ReturnToRun(PolecatGlobError.err, PolecatGlobError.stale,
                             PolecatGlobError.checked)
            ELSE /\ shape' = "polecats"
                 /\ dirs' = g.names
                 /\ dirIdx' = 1
                 /\ allStale' = <<>>
                 /\ totalChecked' = 0
                 /\ pc' = "dirs"
                 /\ UNCHANGED <<staleAttachments, checkedCount, rigIdx>>
    /\ UNCHANGED <<ctxVars, clockVars, cutoff, rigsToCheck, result, storeVars>>

\* checkRig, lines 167-170 and 184: after the polecat stores the crew stores
\* are globbed; on a glob error checkRig returns what it has.
CrewGlob ==
    /\ pc = "dirs"
    /\ shape = "polecats"
    /\ dirIdx > Len(dirs)
    /\ \E g \in GlobResults(budget.dirs) :
         /\ seen' = [seen EXCEPT !.crewGlobs = @ + 1,
                                 !.crewErrs = IF g.err THEN @ + 1 ELSE @]
         /\ budget' = [budget EXCEPT !.dirs = @ - Len(g.names)]
         /\ IF g.err
            THEN LET ret == CrewGlobError(allStale, totalChecked)
                 IN  ReturnToRun(ret.err, ret.stale, ret.checked)
            ELSE /\ shape' = "crew"
                 /\ dirs' = g.names
                 /\ dirIdx' = 1
                 /\ UNCHANGED <<allStale, totalChecked, staleAttachments,
                                checkedCount, rigIdx, pc>>
    /\ UNCHANGED <<ctxVars, clockVars, cutoff, rigsToCheck, result, storeVars>>

\* checkRig, line 184, after the loop over the crew stores.
CheckRigReturn ==
    /\ pc = "dirs"
    /\ shape = "crew"
    /\ dirIdx > Len(dirs)
    /\ ReturnToRun(FALSE, allStale, totalChecked)
    /\ UNCHANGED <<ctxVars, clockVars, cutoff, rigsToCheck, result, storeVars,
                   seen, budget>>

\* checkBeadsDirWithContext, lines 193-208, called for a store: the pinned
\* beads are listed.
ListPinned(l, town) ==
    /\ seen' = [seen EXCEPT !.lists = @ + 1,
                            !.listErrs = IF l.err THEN @ + 1 ELSE @,
                            !.townLists = IF town THEN @ + 1 ELSE @,
                            !.reportable = @ \o ReportableIDs(l.issues, cutoff),
                            !.attached = @ + AttachedCount(l.issues)]
    /\ budget' = [budget EXCEPT !.pinned = @ - Len(l.issues)]
    /\ pinnedIssues' = l.issues
    /\ pinIdx' = IF l.err THEN 0 ELSE 1
    /\ stale' = <<>>
    /\ checked' = 0

\* A store that cannot be listed makes checkRig drop what it has found.
CheckStoreDropping(kinds) ==
    /\ pc = "dirs"
    /\ dirIdx <= Len(dirs)
    /\ LET store == Store(rigsToCheck[rigIdx], shape, dirs[dirIdx])
       IN  \E l \in ListResults(store, kinds, budget.pinned, cutoff) :
             /\ ListPinned(l, FALSE)
             /\ IF l.err
                THEN /\ dirIdx' = dirIdx + 1
                     /\ pc' = "dirs"
                     /\ allStale' = <<>>
                     /\ totalChecked' = 0
                ELSE /\ pc' = "pinned"
                     /\ UNCHANGED <<dirIdx, allStale, totalChecked>>
    /\ UNCHANGED <<ctxVars, clockVars, runVars, shape, dirs>>

\* checkRig calls checkBeadsDirWithContext for the next store, lines 154-162
\* and 171-178; a store that cannot be listed is skipped.
CheckStore(kinds) ==
    /\ pc = "dirs"
    /\ dirIdx <= Len(dirs)
    /\ LET store == Store(rigsToCheck[rigIdx], shape, dirs[dirIdx])
       IN  \E l \in ListResults(store, kinds, budget.pinned, cutoff) :
             /\ ListPinned(l, FALSE)
             /\ IF l.err
                THEN /\ dirIdx' = dirIdx + 1
                     /\ pc' = "dirs"
                ELSE /\ pc' = "pinned"
                     /\ UNCHANGED dirIdx
    /\ UNCHANGED <<ctxVars, clockVars, runVars, shape, dirs, allStale, totalChecked>>

\* Run calls checkBeadsDir for the town-level store, lines 93-95 and 188-190,
\* after the loop over the rigs.
CheckTown(kinds) ==
    /\ pc = "rigs"
    /\ rigIdx > Len(rigsToCheck)
    /\ \E l \in ListResults(TownStore, kinds, budget.pinned, cutoff) :
         /\ ListPinned(l, TRUE)
         /\ pc' = IF l.err THEN "render" ELSE "pinned"
         /\ shape' = IF l.err THEN "none" ELSE "town"
    /\ UNCHANGED <<ctxVars, clockVars, runVars, dirs, dirIdx, allStale, totalChecked>>

\* checkBeadsDirWithContext, lines 210-257: one pass of the loop.
CheckPinned ==
    /\ pc = "pinned"
    /\ pinIdx <= Len(pinnedIssues)
    /\ LET pinned == pinnedIssues[pinIdx]
           rigName == IF shape = "town" THEN "" ELSE rigsToCheck[rigIdx]
           after == CheckPinnedBead(stale, checked, rigName, pinned, clock, cutoff,
                                    Threshold)
       IN  /\ stale' = after.stale
           /\ checked' = after.checked
           /\ seen' = IF NoAttachment(pinned.attachment) THEN seen
                      ELSE [seen EXCEPT !.shows = @ + 1]
    /\ pinIdx' = pinIdx + 1
    /\ UNCHANGED <<ctxVars, clockVars, runVars, rigVars, pinnedIssues, pc, budget>>

\* checkBeadsDirWithContext returns, line 259: to checkRig, lines 163-164
\* and 179-180, or to Run, lines 95-98.
StoreReturn ==
    /\ pc = "pinned"
    /\ pinIdx > Len(pinnedIssues)
    /\ IF shape = "town"
       THEN /\ staleAttachments' = staleAttachments \o stale
            /\ checkedCount' = checkedCount + checked
            /\ pc' = "render"
            /\ shape' = "none"
            /\ UNCHANGED <<allStale, totalChecked, dirIdx>>
       ELSE /\ allStale' = allStale \o stale
            /\ totalChecked' = totalChecked + checked
            /\ dirIdx' = dirIdx + 1
            /\ pc' = "dirs"
            /\ UNCHANGED <<staleAttachments, checkedCount, shape>>
    /\ pinnedIssues' = <<>>
    /\ pinIdx' = 0
    /\ stale' = <<>>
    /\ checked' = 0
    /\ UNCHANGED <<ctxVars, clockVars, cutoff, rigsToCheck, rigIdx, result, dirs,
                   seen, budget>>

\* Run, lines 100-136.
Render ==
    /\ pc = "render"
    /\ result' = RenderResult(staleAttachments, checkedCount, Threshold)
    /\ pc' = "done"
    /\ UNCHANGED <<ctxVars, clockVars, cutoff, rigsToCheck, rigIdx, staleAttachments,
                   checkedCount, rigVars, storeVars, seen, budget>>

\* Time passes while the scan runs; it is observed when the next pinned bead
\* is classified.
Tick ==
    /\ pc = "pinned"
    /\ pinIdx <= Len(pinnedIssues)
    /\ ticks < MaxTicks
    /\ clock' = clock + 1
    /\ ticks' = ticks + 1
    /\ UNCHANGED <<ctxVars, pc, runVars, rigVars, storeVars, seen, budget>>

\* ----------------------------------------------------------- specifications
\* The whole town, checked with the default threshold.
Init == InitWith({"", "rig1"}, {DefaultStaleThreshold}, MaxDirs, MaxPinned)

Next ==
    \/ RunStart
    \/ CheckRigStart
    \/ CheckStore(LeanKinds)
    \/ CrewGlob
    \/ CheckRigReturn
    \/ CheckTown(LeanKinds)
    \/ CheckPinned
    \/ StoreReturn
    \/ Render
    \/ Tick

Spec == Init /\ [][Next]_vars

\* One named rig with a single worker store, checked with any threshold over
\* pinned beads of every kind.
InitResolver == InitWith({"rig1"}, Thresholds, 1, MaxPinned)

NextResolver ==
    \/ RunStart
    \/ CheckRigStart
    \/ CheckStore(RichKinds)
    \/ CrewGlob
    \/ CheckRigReturn
    \/ CheckTown(RichKinds)
    \/ CheckPinned
    \/ StoreReturn
    \/ Render
    \/ Tick

SpecResolver == InitResolver /\ [][NextResolver]_vars

\* ------------------------------------------------------------ the claims
\* The pinned beads the findings `found` are about, in order.
FindingIDs(found) == [k \in 1..Len(found) |-> found[k].PinnedBeadID]

Finished == pc = "done"

\* Run went past the resolution of the rigs with at least one rig to scan.
Scanning == pc # "start" /\ Len(rigsToCheck) > 0

\* C1: a Run that scanned at least one rig and did not return Error reports
\* Warning exactly when it accumulated a finding, with one detail line per
\* finding; else OK, with "No attachments to check" exactly when the
\* accumulated count is 0 and "Checked N attachment(s), none stale", N the
\* accumulated count, exactly when it is greater.
C1_ResultFromAccumulation ==
    (Finished /\ Scanning /\ result.Status # "Error") =>
        /\ result.Status \in {"Warning", "OK"}
        /\ result.Status = "Warning" <=> Len(staleAttachments) > 0
        /\ result.Status = "Warning" => Len(result.Details) = Len(staleAttachments)
        /\ result.Status = "OK" =>
             /\ result.Details = <<>>
             /\ result.Message.format = "No attachments to check" <=> checkedCount = 0
             /\ (result.Message = [format |-> "Checked %d attachment(s), none stale",
                                   args |-> <<checkedCount>>]) <=> checkedCount > 0

C1_Witness ==
    /\ Finished /\ Scanning
    /\ result.Status = "OK"
    /\ checkedCount = 2
    /\ result.Message.args = <<2>>

\* C2: when the listing of some stores fails, Run still returns a result
\* that is not Error, and the findings and the count it accumulated are
\* exactly those of the stores whose listing succeeded.
C2_FailedStoresCountAsEmpty ==
    (Finished /\ Scanning) =>
        /\ result.Status \in {"Warning", "OK"}
        /\ FindingIDs(staleAttachments) = seen.reportable
        /\ checkedCount = seen.attached
        /\ result.Status = "Warning" <=> seen.reportable # <<>>

C2_Witness ==
    /\ Finished
    /\ seen.listErrs > 0
    /\ seen.lists > seen.listErrs + 1
    /\ Len(staleAttachments) > 0
    /\ result.Status = "Warning"

\* C3: Run returns Error ("Failed to discover rigs", the error text its only
\* detail) exactly when no rig was named and the discovery failed, and then
\* nothing was listed, fetched or found; with a rig named there is no
\* discovery, that rig alone is scanned and the result is never Error.
C3_ErrorOnlyFromDiscovery ==
    /\ result.Status = "Error" <=> (RigName = "" /\ seen.discoverErrs > 0)
    /\ result.Status = "Error" =>
         /\ Finished
         /\ result.Message.format = "Failed to discover rigs"
         /\ Len(result.Details) = 1
         /\ result.Details[1] = "read town root: permission denied"
         /\ seen.lists = 0 /\ seen.shows = 0
         /\ staleAttachments = <<>> /\ checkedCount = 0
    /\ RigName # "" =>
         /\ seen.discovers = 0
         /\ pc # "start" => rigsToCheck = <<RigName>>

C3_Witness ==
    /\ Finished
    /\ result.Status = "Error"
    /\ RigName = ""
    /\ seen.discovers = 1

\* CheckPinned takes a step over the pinned bead at pinIdx.
PinnedStep == pc = "pinned" /\ pinIdx <= Len(pinnedIssues) /\ pinIdx' = pinIdx + 1

\* The bead's molecule was fetched and its updated_at is in a known layout.
Resolved(pinned) ==
    /\ Attached(pinned)
    /\ ~pinned.show.err
    /\ pinned.show.mol.UpdatedAt.layout \in Layouts

\* The step over `pinned` added exactly one finding, about `pinned`.
OneFindingAdded(pinned) ==
    /\ Len(stale') = Len(stale) + 1
    /\ SubSeq(stale', 1, Len(stale)) = stale
    /\ stale'[Len(stale')].PinnedBeadID = pinned.ID

\* A span of time as a Duration holds it.
Clamped(n) == IF n > MaxDuration THEN MaxDuration ELSE IF n < MinDuration THEN MinDuration ELSE n

\* C4 as stated, for a check with the default threshold: for a pinned bead
\* whose molecule is fetched and whose updated_at parses, a finding is added
\* exactly when the molecule is "in_progress" and was updated strictly
\* before the cutoff, and the finding's duration is now minus the update
\* time.
C4_StaleIffInProgressBeforeCutoff_Exact ==
    [][(Threshold = DefaultStaleThreshold /\ PinnedStep) =>
         LET pinned == pinnedIssues[pinIdx]
             mol == pinned.show.mol
         IN  Resolved(pinned) =>
               IF mol.Status = "in_progress" /\ mol.UpdatedAt.at < cutoff
               THEN /\ OneFindingAdded(pinned)
                    /\ stale'[Len(stale')].StaleDuration = clock - mol.UpdatedAt.at
               ELSE stale' = stale]_vars

\* C4, amended: the same, the duration being now minus the update time as
\* far as a Duration reaches: it stops at the largest Duration.
C4_StaleIffInProgressBeforeCutoff ==
    [][PinnedStep =>
         LET pinned == pinnedIssues[pinIdx]
             mol == pinned.show.mol
         IN  Resolved(pinned) =>
               IF mol.Status = "in_progress" /\ mol.UpdatedAt.at < cutoff
               THEN /\ OneFindingAdded(pinned)
                    /\ stale'[Len(stale')].StaleDuration = Clamped(clock - mol.UpdatedAt.at)
                    /\ stale'[Len(stale')].LastUpdated = TimeValue(mol.UpdatedAt.at)
                    /\ stale'[Len(stale')].MoleculeTitle = mol.Title
               ELSE stale' = stale]_vars

C4_Witness ==
    /\ pc = "pinned"
    /\ pinIdx = 3
    /\ Resolved(pinnedIssues[1]) /\ Resolved(pinnedIssues[2])
    /\ pinnedIssues[1].show.mol.Status = "in_progress"
    /\ pinnedIssues[1].show.mol.UpdatedAt.at = cutoff
    /\ pinnedIssues[2].show.mol.Status = "in_progress"
    /\ pinnedIssues[2].show.mol.UpdatedAt.at = cutoff - 1
    /\ FindingIDs(stale) = <<pinnedIssues[2].ID>>
    /\ stale[1].StaleDuration = clock - (cutoff - 1)

\* C5 as stated: for every threshold, a pinned bead whose molecule cannot be
\* fetched adds exactly one finding, titled "(molecule not found)", with the
\* zero time, whose duration is greater than the threshold.
C5_NotFoundExceedsThreshold_Always ==
    [][PinnedStep =>
         LET pinned == pinnedIssues[pinIdx]
         IN  (Attached(pinned) /\ pinned.show.err) =>
               /\ OneFindingAdded(pinned)
               /\ stale'[Len(stale')].MoleculeTitle = "(molecule not found)"
               /\ stale'[Len(stale')].LastUpdated = ZeroTime
               /\ stale'[Len(stale')].StaleDuration > Threshold]_vars

\* C5, amended: the finding is added for every threshold; its duration is
\* greater than the threshold when the threshold is positive and the time
\* since the cutoff plus the threshold still fits a Duration.
C5_NotFoundExceedsThreshold ==
    [][PinnedStep =>
         LET pinned == pinnedIssues[pinIdx]
         IN  (Attached(pinned) /\ pinned.show.err) =>
               /\ OneFindingAdded(pinned)
               /\ stale'[Len(stale')].MoleculeTitle = "(molecule not found)"
               /\ stale'[Len(stale')].LastUpdated = ZeroTime
               /\ (Threshold > 0 /\ (clock - cutoff) + Threshold <= MaxDuration) =>
                    /\ stale'[Len(stale')].StaleDuration = (clock - cutoff) + Threshold
                    /\ stale'[Len(stale')].StaleDuration > Threshold]_vars

C5_Witness ==
    /\ pc = "pinned"
    /\ pinIdx = 2
    /\ Attached(pinnedIssues[1]) /\ pinnedIssues[1].show.err
    /\ Threshold = DefaultStaleThreshold
    /\ Len(stale) = 1
    /\ stale[1].MoleculeTitle = "(molecule not found)"
    /\ stale[1].StaleDuration > Threshold

\* C6: while and after a listed store is scanned, the count is the number of
\* pinned beads gone through that name a molecule, whatever became of them;
\* a pinned bead that names none is not counted and has no finding, and one
\* whose molecule has an unparseable updated_at is counted and has none.
C6_CheckedCountsAttachments ==
    pc = "pinned" =>
        LET done == SubSeq(pinnedIssues, 1, pinIdx - 1)
        IN  /\ checked = Cardinality({k \in DOMAIN done :
                           ~done[k].attachment.nil
                           /\ done[k].attachment.AttachedMolecule # ""})
            /\ \A k \in DOMAIN done :
                 (\/ done[k].attachment.nil
                  \/ done[k].attachment.AttachedMolecule = ""
                  \/ (~done[k].show.err /\ done[k].show.mol.UpdatedAt.layout \notin Layouts))
                 => \A f \in DOMAIN stale : stale[f].PinnedBeadID # done[k].ID

C6_Witness ==
    /\ pc = "pinned"
    /\ pinIdx = 3
    /\ Len(pinnedIssues) = 2
    /\ pinnedIssues[1].attachment.AttachedMolecule = "" /\ ~pinnedIssues[1].attachment.nil
    /\ Attached(pinnedIssues[2])
    /\ ~pinnedIssues[2].show.err
    /\ pinnedIssues[2].show.mol.UpdatedAt.layout = "garbage"
    /\ checked = 1
    /\ stale = <<>>

\* Run is at the head of its loop over the rigs, rigIdx - 1 rigs behind it.
AtLoopHead == pc = "rigs"

\* The steps in which a glob fails.
PolecatGlobFails == seen'.polecatErrs = seen.polecatErrs + 1
CrewGlobFails == seen'.crewErrs = seen.crewErrs + 1

\* C7 as stated: whichever glob of a rig fails, the stores of the other
\* shape are still scanned: every rig Run has left had its crew stores
\* globbed, and a failed crew glob keeps the findings of the polecat stores.
C7_GlobFailureSparesOtherShape_Both ==
    /\ AtLoopHead => seen.crewGlobs = rigIdx - 1
    /\ seen.crewErrs <= seen.crewGlobs

\* C7, amended: a failed crew glob keeps the findings and the count of the
\* rig's polecat stores, which Run adds to its own; a failed polecat glob
\* ends the scan of the rig: its crew stores are not globbed and the rig
\* adds nothing, and Run goes on with the next rig.
C7_GlobFailureSparesOtherShape ==
    [][/\ CrewGlobFails =>
            /\ staleAttachments' = staleAttachments \o allStale
            /\ checkedCount' = checkedCount + totalChecked
            /\ rigIdx' = rigIdx + 1
            /\ pc' = "rigs"
       /\ PolecatGlobFails =>
            /\ staleAttachments' = staleAttachments
            /\ checkedCount' = checkedCount
            /\ seen'.crewGlobs = seen.crewGlobs
            /\ seen'.lists = seen.lists
            /\ rigIdx' = rigIdx + 1
            /\ pc' = "rigs"
       /\ pc' = "rigs" => seen'.crewGlobs + seen'.polecatErrs = rigIdx' - 1]_vars

C7_Witness ==
    /\ AtLoopHead
    /\ rigIdx = 2
    /\ seen.crewErrs = 1
    /\ seen.polecatErrs = 0
    /\ Len(staleAttachments) = 1
    /\ staleAttachments[1].PinnedBeadID.store.shape = "polecats"
    /\ checkedCount = 2

\* The findings Run and the calls in progress hold, in the order found.
AllFound == staleAttachments \o allStale \o stale

\* C8: every finding is about a pinned bead of its own that names a molecule
\* and was listed in this Run, and at every point the findings of the store,
\* of the rig and of the Run are no more than the respective count.
C8_FindingsWithinChecked ==
    /\ Len(stale) <= checked
    /\ Len(allStale) <= totalChecked
    /\ Len(staleAttachments) <= checkedCount
    /\ \A a, b \in DOMAIN AllFound :
         a # b => AllFound[a].PinnedBeadID # AllFound[b].PinnedBeadID
    /\ \A a \in DOMAIN AllFound :
         /\ AllFound[a].MoleculeID # ""
         /\ \E k \in DOMAIN seen.reportable : seen.reportable[k] = AllFound[a].PinnedBeadID
    /\ \A a \in DOMAIN stale :
         \E k \in 1..(pinIdx - 1) :
           /\ pinnedIssues[k].ID = stale[a].PinnedBeadID
           /\ Attached(pinnedIssues[k])
    /\ (Finished /\ result.Status = "Warning") => Len(result.Details) <= checkedCount

C8_Witness ==
    /\ Finished
    /\ Len(staleAttachments) = 1
    /\ checkedCount = 2
    /\ result.Status = "Warning"

\* The place of a pinned bead in the scan: its rig's place in the rig list
\* (the town-level store after every rig), polecats before crew, the
\* store's place in the glob, the bead's place in the list.
ScanPlace(id) ==
    <<IF id.store.shape = "town" THEN Len(rigsToCheck) + 1
      ELSE CHOOSE k \in DOMAIN rigsToCheck : rigsToCheck[k] = id.store.rig,
      IF id.store.shape = "polecats" THEN 1
      ELSE IF id.store.shape = "crew" THEN 2 ELSE 3,
      IF id.store.shape = "town" THEN 0
      ELSE CHOOSE k \in 1..MaxDirs : "w" \o ToString(k) = id.store.name,
      id.n>>

Before(p, q) ==
    \E k \in 1..4 : p[k] < q[k] /\ \A j \in 1..(k - 1) : p[j] = q[j]

\* C9: the detail lines of a Warning are those of the findings in scan
\* order: by rig in the order of the rig list, polecat stores before crew
\* stores, stores in glob order, pinned beads in list order, the town-level
\* store last; a line is labelled "town" for the town-level store and with
\* the rig's name otherwise.
C9_DetailsInScanOrder ==
    (Finished /\ result.Status = "Warning") =>
        /\ Len(result.Details) = Len(staleAttachments)
        /\ \A k \in DOMAIN result.Details :
             /\ result.Details[k].pinnedTitle = staleAttachments[k].PinnedTitle
             /\ result.Details[k].location =
                  IF staleAttachments[k].PinnedBeadID.store.shape = "town" THEN "town"
                  ELSE staleAttachments[k].PinnedBeadID.store.rig
        /\ \A a, b \in DOMAIN staleAttachments :
             a < b => Before(ScanPlace(staleAttachments[a].PinnedBeadID),
                             ScanPlace(staleAttachments[b].PinnedBeadID))

C9_Witness ==
    /\ Finished
    /\ result.Status = "Warning"
    /\ Len(result.Details) = 2
    /\ result.Details[1].location = "rig2"
    /\ result.Details[2].location = "town"

\* C10: a Run with a rig to scan lists the town-level store exactly once,
\* after every rig, and adds its findings and its count even when every rig
\* failed; a Run whose discovery finds no rig returns OK "No rigs
\* configured" and lists and fetches nothing, the town-level store included.
C10_TownStoreAfterRigs ==
    /\ seen.townLists <= 1
    /\ (Finished /\ Scanning) => seen.townLists = 1
    /\ seen.townLists = 1 =>
         /\ rigIdx > Len(rigsToCheck)
         /\ pc \in {"pinned", "render", "done"}
         /\ pc = "pinned" => shape = "town"
    /\ (Finished /\ Scanning /\ seen.polecatErrs = Len(rigsToCheck)) =>
         /\ FindingIDs(staleAttachments) = seen.reportable
         /\ checkedCount = seen.attached
         /\ \A k \in DOMAIN staleAttachments : staleAttachments[k].Rig = ""
    /\ (pc # "start" /\ seen.discoverErrs = 0 /\ rigsToCheck = <<>>) =>
         /\ Finished
         /\ result.Status = "OK"
         /\ result.Message.format = "No rigs configured"
         /\ seen.lists = 0 /\ seen.townLists = 0 /\ seen.shows = 0

C10_Witness ==
    /\ Finished
    /\ Len(rigsToCheck) = 2
    /\ seen.polecatErrs = 2
    /\ seen.lists = 1
    /\ result.Status = "Warning"
    /\ checkedCount = 2

====
